---- MODULE Spec2Model ----
(***************************************************************************)
(* Verification model of the ROV navigation post-processing pipeline:      *)
(*   processors/kalman_filter.py                  (estimator + USBL gate)  *)
(*   processors/kalman_offset_depth1m_heading2m.py (terrain-safety stage)  *)
(*                                                                         *)
(* Fixed-point conventions (TLC has integers only):                        *)
(*   lengths, depths, positions : quarter-metres      (M(1) = 4)           *)
(*   covariances of lengths     : 0.01 m^2            (Var(1) = 100)       *)
(*   angles                     : milliradians, covariances in mrad^2      *)
(*   timestamps                 : whole seconds                            *)
(* A missing float (NaN) is the empty tuple <<>>, a present one is <<v>>;  *)
(* a missing position is <<>>, a present one is <<x, y>>.                  *)
(***************************************************************************)
EXTENDS Integers, Sequences, FiniteSets, TLC

VARIABLES
    pc,             \* position in the pipeline
    loaded,         \* the table as read from kalman_prepped_datamerge.csv
    df,             \* the table process_data works on (sequence of rows)
    i,              \* number of rows the estimator loop has consumed
    kf,             \* filter state and covariance (kf.x, kf.P)
    prev_time,      \* <<>> before the first row, then <<Timestamp>>
    recent_usbl_x,  \* rolling gate buffer, x
    recent_usbl_y,  \* rolling gate buffer, y
    steps,          \* history: what each loop iteration did
    arrivals,       \* history: every USBL fix that reached the gate, in order
    out,            \* kalman_* output columns, one entry per processed row
    safe,           \* rows written by the terrain stage
    nav,            \* Nav_depth_offset.process_rov_data: its table `data`
                    \* after line 22 and the rows of formatted_data it wrote
    yaw,            \* filter_heading: its argument and its return value
    par,            \* two dives run side by side: each run's locals, and
                    \* who wrote which file
    orch,           \* main.py: the orchestrator's position and what it did
    rev             \* the re-evaluation of lines 139-142 on any depth and
                    \* elevation, applied once and twice

vars == <<pc, loaded, df, i, kf, prev_time, recent_usbl_x, recent_usbl_y,
          steps, arrivals, out, safe, nav, yaw, par, orch, rev>>

----------------------------------------------------------------------------
(* Units and small helpers *)

M(x) == 4 * x                    \* metres -> quarter-metres
Var(x) == 100 * x                \* m^2 -> units of 0.01 m^2

NaN == <<>>
IsNaN(v) == v = <<>>
Val(v) == v[1]

Abs(a) == IF a < 0 THEN -a ELSE a
Max(a, b) == IF a >= b THEN a ELSE b
Min(a, b) == IF a <= b THEN a ELSE b

\* round-to-nearest integer division, b > 0
RoundDiv(a, b) == (a + (b \div 2)) \div b

\* <<q, r>> with a * b = q * c + r and 0 <= r < c, for 0 <= a < c and b >= 0,
\* by doubling, so that no intermediate value exceeds 3 * c
RECURSIVE DivMod(_, _, _)
DivMod(a, b, c) ==
    IF b = 0 THEN <<0, 0>>
    ELSE LET h == DivMod(a, b \div 2, c)
             r == 2 * h[2] + (b % 2) * a
         IN  << 2 * h[1] + (r \div c), r % c >>

\* RoundDiv(a * b, c) for products beyond the 32-bit range, c > 0
MulDiv(a, b, c) ==
    IF Abs(a) < 46340 /\ Abs(b) < 46340
    THEN RoundDiv(a * b, c)
    ELSE LET qr == DivMod(Abs(a) % c, Abs(b), c)
             q  == (Abs(a) \div c) * Abs(b) + qr[1]
         IN  IF (a < 0) = (b < 0)
             THEN q + ((qr[2] + (c \div 2)) \div c)
             ELSE (-q) + (((c \div 2) - qr[2]) \div c)

RECURSIVE SumSeq(_)
SumSeq(s) == IF s = <<>> THEN 0 ELSE Head(s) + SumSeq(Tail(s))

RECURSIVE SumSq(_)
SumSq(s) == IF s = <<>> THEN 0 ELSE Head(s) * Head(s) + SumSq(Tail(s))

SelectIdx(s, T(_)) == { k \in 1..Len(s) : T(s[k]) }

----------------------------------------------------------------------------
(* Bounds of the model *)

MaxRows == 3        \* rows of an input file (general families)
MaxTs == 3          \* timestamps of the ordering family are 1..MaxTs
MaxLong == 22       \* rows of a long steady track (window eviction)
MaxFull == 2        \* rows of a file whose rows carry every sensor
MaxRepeat == 11     \* rows of a file of the family "repeat"

----------------------------------------------------------------------------
(* Input files: kalman_prepped_datamerge.csv *)

\* How line 295 evaluates, in float64, a comparison whose two sides are equal
\* in exact arithmetic: np.mean and np.std round, so 3 * std comes out either
\* at or above the deviation ("exact") or just below it ("short").  Which of
\* the two depends on the low-order digits of the coordinates, which the
\* quarter-metre grid does not keep; a record carries it as usbl_rounding.
Roundings == { "exact", "short" }

Row(ts, depth, usbl, dvl, roll, pitch, ev) ==
    [ Timestamp     |-> ts,
      Herc_Depth_1  |-> depth,
      usbl          |-> usbl,       \* (x_usbl, y_usbl) after latlon_to_utm
      Accuracy_USBL |-> IF usbl = NaN THEN NaN ELSE <<5>>,
      dvl           |-> dvl,        \* (x_dvl, y_dvl) after latlon_to_utm
      Roll          |-> roll,       \* degrees
      Pitch         |-> pitch,      \* degrees
      Heading       |-> <<0>>,      \* degrees
      event_value   |-> ev,
      usbl_rounding |-> "exact" ]   \* see Within3Sigma

Pos(x, y) == <<M(x), M(y)>>

\* sequences over S of length 1..n
SeqsUpTo(S, n) == UNION { [1..k -> S] : k \in 1..n }

\* Family "order": unsorted files with duplicate timestamps; the rows at
\* timestamp 1 may carry an event value.
OrderRows ==
    { Row(t, <<M(-25)>>, Pos(0, 0), NaN, NaN, NaN, NaN) : t \in 1..MaxTs }
    \cup { Row(1, <<M(-25)>>, Pos(0, 0), NaN, NaN, NaN, <<1>>) }
OrderFiles == SeqsUpTo(OrderRows, MaxRows)

\* Family "gate": time-ordered files whose rows carry acoustic fixes.
GateFixes == { NaN, Pos(0, 0), Pos(1000, 1000), Pos(-2, -2), Pos(2, 2), Pos(10, 0) }
GateFiles ==
    { [k \in 1..Len(f) |-> Row(k, <<M(-25)>>, f[k], NaN, NaN, NaN, NaN)] :
        f \in SeqsUpTo(GateFixes, MaxRows) }

\* Family "depth": time-ordered files with depth only, or with depth and the
\* acoustic fix (0, 0) on the first row; a row without depth or fix is empty.
DepthVals ==
    { NaN, <<M(-10)>>, <<M(-25)>>, <<M(-40)>>, <<M(-60)>>,
      <<M(-55)>>, <<M(-55) + 2>>, <<M(-55) + 3>> }
DepthFiles ==
    { [k \in 1..Len(f) |->
          Row(k, f[k], IF k = 1 THEN fix ELSE NaN, NaN, NaN, NaN, NaN)] :
        f \in SeqsUpTo(DepthVals, MaxRows), fix \in {NaN, Pos(0, 0)} }

\* Family "long": a steady track x = y = k metres with every row carrying a
\* fix; row `o` (if any) is displaced by 100 m.
LongFile(n, o) ==
    [k \in 1..n |->
        Row(k, <<M(-25)>>,
            IF k = o THEN Pos(k + 100, k + 100) ELSE Pos(k, k),
            NaN, NaN, NaN, NaN)]
LongFiles == { LongFile(n, o) : n \in 4..MaxLong, o \in {0, 12} }

\* Family "repeat": the vehicle's fixes repeat one position n - 1 times and
\* the n-th fix is 1 m away on both axes.
RepeatFile(n, rounding) ==
    [k \in 1..n |->
        [Row(k, <<M(-25)>>, IF k = n THEN Pos(1, 1) ELSE Pos(0, 0),
             NaN, NaN, NaN, NaN)
         EXCEPT !.usbl_rounding = IF k = n THEN rounding ELSE "exact"]]
RepeatFiles == { RepeatFile(n, r) : n \in 3..MaxRepeat, r \in Roundings }

\* Family "full": time-ordered files whose rows carry any mix of sensors.
FullRows(t) ==
    { Row(t, <<M(d)>>, usbl, dvl, att[1], att[2], NaN) :
        d \in {-25, -40},
        usbl \in {NaN, Pos(2, 2)},
        dvl \in {NaN, Pos(1, 1)},
        att \in { <<NaN, NaN>>, << <<10>>, <<5>> >> } }
FullFiles ==
    UNION { { [k \in 1..n |-> [f[k] EXCEPT !.Timestamp = k]] :
                f \in [1..n -> FullRows(1)] } : n \in 1..MaxFull }

\* Family "attitude": time-ordered files with a fix on every row and varying
\* heading and roll.
AttitudeRows ==
    { [Row(0, <<M(-25)>>, Pos(0, 0), NaN, roll, <<5>>, NaN) EXCEPT !.Heading = h] :
        h \in { <<0>>, <<90>> }, roll \in { <<0>>, <<10>> } }
AttitudeFiles ==
    UNION { { [k \in 1..n |-> [f[k] EXCEPT !.Timestamp = k]] :
                f \in [1..n -> AttitudeRows] } : n \in 1..MaxRows }

\* Family "bottom": every row carries a fix and a bottom-track position, at
\* depths on both sides of the -20 m and -30 m limits.
BottomDepths ==
    { NaN, <<M(-20) + 1>>, <<M(-20)>>, <<M(-25)>>, <<M(-30)>>, <<M(-30) - 1>>,
      <<M(-40)>> }
BottomFiles ==
    { [k \in 1..Len(f) |-> Row(k, f[k], Pos(0, 0), Pos(1, 1), NaN, NaN, NaN)] :
        f \in SeqsUpTo(BottomDepths, MaxFull) }

InputFiles ==
    OrderFiles \cup GateFiles \cup DepthFiles \cup LongFiles \cup FullFiles
    \cup AttitudeFiles \cup RepeatFiles \cup BottomFiles

----------------------------------------------------------------------------
(* process_data, lines 182-195: depth filter, sort, de-duplication *)

DepthCutoff == M(-20)

\* a depth filter that keeps a record without depth
KeepUnlessShallow(r) ==
    IsNaN(r.Herc_Depth_1) \/ Val(r.Herc_Depth_1) <= DepthCutoff

\* df = df[df["Herc_Depth_1"] <= -20]   (a NaN compares False and is dropped)
KeepDeep(r) == ~IsNaN(r.Herc_Depth_1) /\ Val(r.Herc_Depth_1) <= DepthCutoff
FilterDepth(rows) == SelectSeq(rows, KeepDeep)

\* The orders an (unstable) quicksort of the index set S by `keys` can
\* produce: ties may come out in any order.
RECURSIVE SortIdx(_, _)
SortIdx(keys, S) ==
    IF S = {} THEN { <<>> }
    ELSE LET m == CHOOSE a \in { keys[j] : j \in S } :
                      \A b \in { keys[j] : j \in S } : a <= b
         IN  UNION { { <<j>> \o r : r \in SortIdx(keys, S \ {j}) } :
                     j \in { j \in S : keys[j] = m } }

Permute(rows, p) == [k \in 1..Len(rows) |-> rows[p[k]]]

\* df.sort_values(by="Timestamp")
SortByTimestamp(rows) ==
    { Permute(rows, p) :
        p \in SortIdx([k \in 1..Len(rows) |-> rows[k].Timestamp], 1..Len(rows)) }

\* df.sort_values("event_value", na_position="first"): the rows with a null
\* event_value come first in their present order, the others follow sorted
\* by event_value.
HasNullEvent(r) == IsNaN(r.event_value)
HasEvent(r) == ~IsNaN(r.event_value)
SortByEventValue(rows) ==
    LET nulls == SelectSeq(rows, HasNullEvent)
        evs   == SelectSeq(rows, HasEvent)
    IN  { nulls \o Permute(evs, p) :
            p \in SortIdx([k \in 1..Len(evs) |-> Val(evs[k].event_value)],
                          1..Len(evs)) }

\* df["Timestamp"].duplicated().any()
HasDuplicates(rows) ==
    \E a, b \in 1..Len(rows) : a < b /\ rows[a].Timestamp = rows[b].Timestamp

\* drop_duplicates(subset=["Timestamp"], keep="first")
RECURSIVE DropDuplicates(_)
DropDuplicates(rows) ==
    IF rows = <<>> THEN <<>>
    ELSE LET n    == Len(rows)
             init == DropDuplicates(SubSeq(rows, 1, n - 1))
         IN  IF \E a \in 1..(n - 1) : rows[a].Timestamp = rows[n].Timestamp
             THEN init
             ELSE Append(init, rows[n])

\* The tables process_data can hold when the estimator loop starts.
Deduplicate(sorted, has_event_column) ==
    IF HasDuplicates(sorted)
    THEN IF has_event_column
         THEN { DropDuplicates(t) : t \in SortByEventValue(sorted) }
         ELSE { DropDuplicates(sorted) }
    ELSE { sorted }

Prepare(rows, has_event_column) ==
    UNION { Deduplicate(s, has_event_column) :
            s \in SortByTimestamp(FilterDepth(rows)) }

----------------------------------------------------------------------------
(* The 8-state filter (filterpy KalmanFilter, dim_x = 8, dim_z = 1).       *)
(* P starts diagonal, F couples each position only with its own velocity   *)
(* and every H selects one state, so P stays block-diagonal: three         *)
(* (position, velocity) blocks x, y, z and two scalar blocks roll, pitch.  *)
(* Each block carries its part of kf.x and of kf.P.                        *)

Axis(p) == [ p |-> p, v |-> 0, Ppp |-> Var(1000), Ppv |-> 0, Pvv |-> Var(100) ]
Angle(a) == [ a |-> a, P |-> 121847 ]          \* radians(20)^2 in mrad^2

\* kf.Q: 0.3^2 m^2, 0.01^2 rad^2; 0.05^2 (m/s)^2 is below the resolution
QPos == 9
QAngle == 100
QVel == 0

\* measurement noises R
RDepth == 1                    \* 0.1^2 m^2
RDvl == 900                    \* 3.0^2 m^2
RAngle == 289                  \* 0.017^2 rad^2
DefaultAccuracy == 5           \* metres, when Accuracy_USBL is NaN
RUsbl(row) ==
    LET acc == IF IsNaN(row.Accuracy_USBL) THEN DefaultAccuracy
               ELSE Val(row.Accuracy_USBL)
    IN  Var(acc * acc)

\* deg2rad / np.degrees, in milliradians
Deg2Rad(deg) == IF IsNaN(deg) THEN NaN ELSE << RoundDiv(Val(deg) * 17453, 1000) >>
Rad2Deg(mrad) == RoundDiv(mrad * 1000, 17453)

\* wrap_angle: (angle + pi) % (2 pi) - pi
WrapAngle(a) == ((a + 3142) % 6283) - 3142

\* a * dt, dt in milliseconds (whole seconds, or the 0.001 s floor)
MulDt(a, dt) ==
    IF dt % 1000 = 0 THEN a * (dt \div 1000) ELSE RoundDiv(a * dt, 1000)

\* x = F x, P = F P F' + Q on one (position, velocity) block
PredictAxis(b, dt) ==
    [ p   |-> b.p + MulDt(b.v, dt),
      v   |-> b.v,
      Ppp |-> b.Ppp + 2 * MulDt(b.Ppv, dt) + MulDt(MulDt(b.Pvv, dt), dt) + QPos,
      Ppv |-> b.Ppv + MulDt(b.Pvv, dt),
      Pvv |-> b.Pvv + QVel ]

PredictAngle(b) == [ a |-> b.a, P |-> b.P + QAngle ]

\* kf.predict() with F[0,5] = F[1,6] = F[2,7] = dt
KfPredict(k, dt) ==
    [ x     |-> PredictAxis(k.x, dt),
      y     |-> PredictAxis(k.y, dt),
      z     |-> PredictAxis(k.z, dt),
      roll  |-> PredictAngle(k.roll),
      pitch |-> PredictAngle(k.pitch) ]

\* kf.update(z, H, R) with H selecting the position of one block:
\* y = z - Hx, S = HPH' + R, K = PH'/S, x += K y, P = (I - KH) P
UpdateAxis(b, z, R) ==
    LET S == b.Ppp + R
        y == z - b.p
    IN  [ p   |-> b.p + MulDiv(b.Ppp, y, S),
          v   |-> b.v + MulDiv(b.Ppv, y, S),
          Ppp |-> MulDiv(b.Ppp, R, S),
          Ppv |-> MulDiv(b.Ppv, R, S),
          Pvv |-> b.Pvv - MulDiv(b.Ppv, b.Ppv, S) ]

UpdateAngle(b, z, R) ==
    LET S == b.P + R
        y == z - b.a
    IN  [ a |-> b.a + RoundDiv(b.P * y, S),
          P |-> RoundDiv(b.P * R, S) ]

----------------------------------------------------------------------------
(* The USBL outlier gate, lines 283-296 *)

WindowSize == 20

\* PushFix with the newest entry evicted instead of the oldest (pop() for pop(0))
PushFixPopNewest(buf, v) ==
    LET b == Append(buf, v)
    IN  IF Len(b) > WindowSize THEN SubSeq(b, 1, Len(b) - 1) ELSE b

\* recent_usbl_x.append(v); if len(recent_usbl_x) > 20: recent_usbl_x.pop(0)
PushFix(buf, v) ==
    LET b == Append(buf, v)
    IN  IF Len(b) > WindowSize THEN Tail(b) ELSE b

\* n^2 * np.std(buf)^2  (so np.std(buf) > 0 iff StdSq(buf) > 0)
StdSq(buf) == Len(buf) * SumSq(buf) - SumSeq(buf) * SumSeq(buf)

\* the 3-sigma test with the statistics taken before the fix is appended
Within3SigmaBeforeAppend(buf, v, rounding) ==
    LET b == SubSeq(buf, 1, Len(buf) - 1)
        d == Len(b) * v - SumSeq(b)
    IN  d * d <= 9 * StdSq(b)

\* abs(v - np.mean(buf)) <= 3 * np.std(buf), both sides scaled by n and squared
Within3Sigma(buf, v, rounding) ==
    LET d == Len(buf) * v - SumSeq(buf)
    IN  \/ d * d < 9 * StdSq(buf)
        \/ d * d = 9 * StdSq(buf) /\ rounding = "exact"

\* a gate that also looks at how many estimates were already emitted
GateAcceptsEarlyOnly(bx, by, fix, rounding) ==
    IF Len(bx) >= 2
    THEN /\ Len(out) < 2
         /\ StdSq(bx) > 0
         /\ StdSq(by) > 0
         /\ Within3Sigma(bx, fix[1], rounding)
         /\ Within3Sigma(by, fix[2], rounding)
    ELSE TRUE

\* The decision of lines 289-321 on the buffers as they are at line 289,
\* that is with the incoming fix already appended.
GateAccepts(bx, by, fix, rounding) ==
    IF Len(bx) >= 2
    THEN /\ StdSq(bx) > 0
         /\ StdSq(by) > 0
         /\ Within3Sigma(bx, fix[1], rounding)
         /\ Within3Sigma(by, fix[2], rounding)
    ELSE TRUE

----------------------------------------------------------------------------
(* filter_heading, lines 48-82, as called at line 215 with window_size = 15. *)
(* Headings are whole degrees; sines and cosines are in hundredths.          *)

\* np.sin, np.cos of np.deg2rad(h) for the modelled headings (multiples of 45)
Sin100(h) ==
    CASE h % 360 = 0 -> 0 [] h % 360 = 45 -> 71 [] h % 360 = 90 -> 100
      [] h % 360 = 135 -> 71 [] h % 360 = 180 -> 0 [] h % 360 = 225 -> -71
      [] h % 360 = 270 -> -100 [] h % 360 = 315 -> -71
Cos100(h) == Sin100(h + 90)

\* np.interp(np.arange(n), np.where(valid_mask)[0], vals[valid_mask]) at x
Interp(vals, valid, x) ==
    LET below == { k \in valid : k <= x }
        above == { k \in valid : k >= x }
        lo    == CHOOSE k \in below : \A j \in below : j <= k
        hi    == CHOOSE k \in above : \A j \in above : j >= k
    IN  IF below = {} THEN vals[hi]
        ELSE IF above = {} THEN vals[lo]
        ELSE IF lo = hi THEN vals[lo]
        ELSE vals[lo] + RoundDiv((vals[hi] - vals[lo]) * (x - lo), hi - lo)

\* sigma = max(window_size / 5.0, 1.0) = 3; gaussian_filter1d truncates the
\* kernel at int(4 * sigma + 0.5) = 12 samples
GaussRadius == 12
\* 100 * exp(-k^2 / (2 * sigma^2)), rounded
GaussWeight(k) ==
    CASE k = 0 -> 100 [] k = 1 -> 95 [] k = 2 -> 80 [] k = 3 -> 61 [] k = 4 -> 41
      [] k = 5 -> 25 [] k = 6 -> 14 [] k = 7 -> 7 [] k = 8 -> 3 [] k = 9 -> 1
      [] OTHER -> 0

\* sum of GaussWeight(k) over k..GaussRadius
TailWeight(k) ==
    CASE k = 0 -> 427 [] k = 1 -> 327 [] k = 2 -> 232 [] k = 3 -> 152
      [] k = 4 -> 91 [] k = 5 -> 50 [] k = 6 -> 25 [] k = 7 -> 11 [] k = 8 -> 4
      [] k = 9 -> 1 [] OTHER -> 0

\* total kernel weight that output `at` gives to sample j of n: with
\* mode='nearest' the first and the last sample stand for everything beyond
KernelMass(n, at, j) ==
    IF n = 1 THEN 2 * TailWeight(0) - GaussWeight(0)
    ELSE IF j = 1 THEN TailWeight(at - 1)
    ELSE IF j = n THEN TailWeight(n - at)
    ELSE GaussWeight(Abs(j - at))

RECURSIVE WeightedSum(_, _, _, _)
\* sum over the samples j..n of kernel weight * sample
WeightedSum(vals, n, at, j) ==
    IF j > n THEN 0
    ELSE KernelMass(n, at, j) * vals[j] + WeightedSum(vals, n, at, j + 1)

\* gaussian_filter1d(vals, sigma, mode='nearest'), up to the kernel's norm
GaussianFilter(vals) ==
    LET n == Len(vals)
    IN  [at \in 1..n |-> WeightedSum(vals, n, at, 1)]

\* arctan of mn / mx in degrees, for 0 <= mn <= mx, mx > 0
\* (atan(t) ~ 45 t + 15.64 t (1 - t), t in thousandths)
ArcTanDeg(mn, mx) ==
    LET t == RoundDiv(1000 * mn, mx)
    IN  RoundDiv(45000 * t + ((1564 * t * (1000 - t)) \div 100), 1000000)

\* np.rad2deg(np.arctan2(s, c)), in (-180, 180]
ArcTan2Deg(s, c) ==
    LET a == Abs(s)
        b == Abs(c)
        first == IF a = 0 /\ b = 0 THEN 0
                 ELSE IF a <= b THEN ArcTanDeg(a, b) ELSE 90 - ArcTanDeg(b, a)
        upper == IF c >= 0 THEN first ELSE 180 - first
    IN  IF s >= 0 THEN upper ELSE -upper

filter_heading(headings) ==
    LET n     == Len(headings)
        valid == { k \in 1..n : ~IsNaN(headings[k]) }
    IN  IF n = 0 \/ valid = {}
        THEN [k \in 1..n |-> NaN]
        ELSE LET sin_vals   == [k \in 1..n |->
                                  IF k \in valid THEN Sin100(Val(headings[k])) ELSE 0]
                 cos_vals   == [k \in 1..n |->
                                  IF k \in valid THEN Cos100(Val(headings[k])) ELSE 0]
                 sin_interp == [k \in 1..n |-> Interp(sin_vals, valid, k)]
                 cos_interp == [k \in 1..n |-> Interp(cos_vals, valid, k)]
                 sin_smooth == GaussianFilter(sin_interp)
                 cos_smooth == GaussianFilter(cos_interp)
             IN  [k \in 1..n |->
                    << ArcTan2Deg(sin_smooth[k], cos_smooth[k]) % 360 >>]

MaxHead == 3            \* length of a heading sequence given to the smoother

HeadingVals == { NaN, <<0>>, <<45>>, <<90>>, <<180>>, <<270>>, <<315>> }
HeadingSeqs == UNION { [1..n -> HeadingVals] : n \in 0..MaxHead }

----------------------------------------------------------------------------
(* One iteration of the estimator loop, lines 261-368 *)

DvlDepthLimit == M(-30)

HasFix(row) == ~IsNaN(row.usbl)
HasDvl(row) == ~IsNaN(row.dvl)

\* Corrections with the bottom-track block moved ahead of the acoustic block
CorrectionsDvlBeforeUsbl(row, accepted) ==
       (IF ~IsNaN(row.Herc_Depth_1) THEN << "depth" >> ELSE << >>)
    \o (IF HasDvl(row) /\ Val(row.Herc_Depth_1) >= DvlDepthLimit
        THEN << "dvl_x", "dvl_y" >> ELSE << >>)
    \o (IF HasFix(row) /\ accepted THEN << "usbl_x", "usbl_y" >> ELSE << >>)
    \o (IF ~IsNaN(Deg2Rad(row.Roll)) THEN << "roll" >> ELSE << >>)
    \o (IF ~IsNaN(Deg2Rad(row.Pitch)) THEN << "pitch" >> ELSE << >>)

\* Corrections with the bottom-track block applied at any depth
CorrectionsDvlAnyDepth(row, accepted) ==
       (IF ~IsNaN(row.Herc_Depth_1) THEN << "depth" >> ELSE << >>)
    \o (IF HasFix(row) /\ accepted THEN << "usbl_x", "usbl_y" >> ELSE << >>)
    \o (IF HasDvl(row) THEN << "dvl_x", "dvl_y" >> ELSE << >>)
    \o (IF ~IsNaN(Deg2Rad(row.Roll)) THEN << "roll" >> ELSE << >>)
    \o (IF ~IsNaN(Deg2Rad(row.Pitch)) THEN << "pitch" >> ELSE << >>)

\* The corrections one iteration applies, in the order of its statements.
Corrections(row, accepted) ==
       (IF ~IsNaN(row.Herc_Depth_1) THEN << "depth" >> ELSE << >>)
    \o (IF HasFix(row) /\ accepted THEN << "usbl_x", "usbl_y" >> ELSE << >>)
    \o (IF HasDvl(row) /\ Val(row.Herc_Depth_1) >= DvlDepthLimit
        THEN << "dvl_x", "dvl_y" >> ELSE << >>)
    \o (IF ~IsNaN(Deg2Rad(row.Roll)) THEN << "roll" >> ELSE << >>)
    \o (IF ~IsNaN(Deg2Rad(row.Pitch)) THEN << "pitch" >> ELSE << >>)

\* One kf.update call.
ApplyCorrection(k, op, row) ==
    CASE op = "depth"  -> [k EXCEPT !.z = UpdateAxis(@, Val(row.Herc_Depth_1), RDepth)]
      [] op = "usbl_x" -> [k EXCEPT !.x = UpdateAxis(@, row.usbl[1], RUsbl(row))]
      [] op = "usbl_y" -> [k EXCEPT !.y = UpdateAxis(@, row.usbl[2], RUsbl(row))]
      [] op = "dvl_x"  -> [k EXCEPT !.x = UpdateAxis(@, row.dvl[1], RDvl)]
      [] op = "dvl_y"  -> [k EXCEPT !.y = UpdateAxis(@, row.dvl[2], RDvl)]
      [] op = "roll"   -> [k EXCEPT !.roll = UpdateAngle(@, Val(Deg2Rad(row.Roll)), RAngle)]
      [] op = "pitch"  -> [k EXCEPT !.pitch = UpdateAngle(@, Val(Deg2Rad(row.Pitch)), RAngle)]

RECURSIVE ApplyCorrections(_, _, _)
ApplyCorrections(k, ops, row) ==
    IF ops = << >> THEN k
    ELSE ApplyCorrections(ApplyCorrection(k, Head(ops), row), Tail(ops), row)

\* kf.x[3] = wrap_angle(kf.x[3]); kf.x[4] = wrap_angle(kf.x[4])
WrapAngles(k) ==
    [k EXCEPT !.roll.a = WrapAngle(@), !.pitch.a = WrapAngle(@)]

\* dt = 1.0 if prev_time is None else max(total_seconds, 0.001), in ms
ElapsedMs(prev, now) ==
    IF IsNaN(prev) THEN 1000 ELSE Max((now - Val(prev)) * 1000, 1)

\* lines 222-241: initial state from the first non-null value of each column
FirstPresent(col, default) ==
    IF \E k \in 1..Len(col) : ~IsNaN(col[k])
    THEN col[CHOOSE k \in 1..Len(col) :
                 ~IsNaN(col[k]) /\ \A j \in 1..(k - 1) : IsNaN(col[j])]
    ELSE default

InitFilter(rows) ==
    LET n    == Len(rows)
        fix  == FirstPresent([k \in 1..n |-> rows[k].usbl], <<0, 0>>)
        z    == FirstPresent([k \in 1..n |-> rows[k].Herc_Depth_1], <<0>>)
        roll == FirstPresent([k \in 1..n |-> Deg2Rad(rows[k].Roll)], <<0>>)
        pit  == FirstPresent([k \in 1..n |-> Deg2Rad(rows[k].Pitch)], <<0>>)
    IN  [ x |-> Axis(fix[1]), y |-> Axis(fix[2]), z |-> Axis(Val(z)),
          roll |-> Angle(Val(roll)), pitch |-> Angle(Val(pit)) ]

\* what one pass of the loop computes from the filter state, the last
\* timestamp, the gate buffers and the record
StepFrom(prior, prev, bx0, by0, row) ==
    LET dt        == ElapsedMs(prev, row.Timestamp)
        predicted == KfPredict(prior, dt)
        bx        == IF HasFix(row) THEN PushFix(bx0, row.usbl[1]) ELSE bx0
        by        == IF HasFix(row) THEN PushFix(by0, row.usbl[2]) ELSE by0
        accepted  == HasFix(row) /\ GateAccepts(bx, by, row.usbl, row.usbl_rounding)
        ops       == Corrections(row, accepted)
    IN  [ bx       |-> bx,
          by       |-> by,
          accepted |-> accepted,
          ops      |-> << "predict" >> \o ops,
          after    |-> WrapAngles(ApplyCorrections(predicted, ops, row)) ]

----------------------------------------------------------------------------
(* kalman_filter.process_data as a state machine *)

Init ==
    /\ pc = "start"
    /\ loaded = << >>
    /\ df = << >>
    /\ i = 0
    /\ kf = InitFilter(<< >>)
    /\ prev_time = NaN
    /\ recent_usbl_x = << >>
    /\ recent_usbl_y = << >>
    /\ steps = << >>
    /\ arrivals = << >>
    /\ out = << >>
    /\ safe = << >>
    /\ nav = [ data |-> << >>, formatted_data |-> << >> ]
    /\ yaw = [ headings |-> << >>, filtered |-> << >> ]
    /\ par = [ run |-> << >>, written |-> {} ]
    /\ orch = [ at |-> 1, ended |-> "no", exists |-> FALSE, offered |-> << >>,
                answers |-> << >>, ran |-> << >> ]
    /\ rev = [ depth |-> NaN, geo |-> NaN, once |-> NaN, twice |-> NaN ]

\* latlon_to_utm, lines 108-112 and 126-127: the columns x_usbl, y_usbl are
\* created only when some row has both Lat_USBL and Long_USBL.
HasUsblColumns(table) == \E k \in 1..Len(table) : HasFix(table[k])

\* lines 413-416: an exception anywhere in the body is printed, nothing has
\* been written, the function returns 1
RaiseError(table) ==
    /\ df' = table
    /\ pc' = "failed"
    /\ UNCHANGED <<i, kf, prev_time, recent_usbl_x, recent_usbl_y>>

\* line 215: df["kalman_yaw_deg"] = filter_heading(df["Heading"].values, 15)
WithYaw(table) ==
    LET smoothed == filter_heading([k \in 1..Len(table) |-> table[k].Heading])
    IN  [k \in 1..Len(table) |->
            [ Timestamp      |-> table[k].Timestamp,
              Herc_Depth_1   |-> table[k].Herc_Depth_1,
              usbl           |-> table[k].usbl,
              Accuracy_USBL  |-> table[k].Accuracy_USBL,
              dvl            |-> table[k].dvl,
              Roll           |-> table[k].Roll,
              Pitch          |-> table[k].Pitch,
              Heading        |-> table[k].Heading,
              event_value    |-> table[k].event_value,
              usbl_rounding  |-> table[k].usbl_rounding,
              kalman_yaw_deg |-> smoothed[k] ]]

\* lines 222-259: the filter and the loop's variables are initialised
StartLoop(table) ==
    /\ df' = WithYaw(table)
    /\ kf' = InitFilter(table)
    /\ pc' = "loop"
    /\ i' = 0
    /\ prev_time' = NaN
    /\ recent_usbl_x' = << >>
    /\ recent_usbl_y' = << >>

\* lines 179-259: read the file, filter, sort, de-duplicate, initialise.
\* df["Herc_Depth_1"] (line 184) raises KeyError without the column, and so
\* does df["x_usbl"] (line 223) when latlon_to_utm created no such column.
ReadFile(file, has_depth_column, has_event_column) ==
    /\ has_depth_column \/ \A k \in 1..Len(file) : IsNaN(file[k].Herc_Depth_1)
    /\ has_event_column \/ \A k \in 1..Len(file) : IsNaN(file[k].event_value)
    /\ loaded' = file
    /\ IF ~has_depth_column
       THEN RaiseError(file)
       ELSE \E table \in Prepare(file, has_event_column) :
                IF HasUsblColumns(table) THEN StartLoop(table)
                ELSE RaiseError(table)
    /\ UNCHANGED <<steps, arrivals, out, safe, nav, yaw, par, orch, rev>>

\* lines 261-368: one pass of `for i, row in df.iterrows()`
FilterStep ==
    /\ pc = "loop"
    /\ i < Len(df)
    /\ LET row       == df[i + 1]
           dt        == ElapsedMs(prev_time, row.Timestamp)
           predicted == KfPredict(kf, dt)
           bx        == IF HasFix(row) THEN PushFix(recent_usbl_x, row.usbl[1])
                        ELSE recent_usbl_x
           by        == IF HasFix(row) THEN PushFix(recent_usbl_y, row.usbl[2])
                        ELSE recent_usbl_y
           accepted  == HasFix(row) /\ GateAccepts(bx, by, row.usbl, row.usbl_rounding)
           ops       == Corrections(row, accepted)
           corrected == WrapAngles(ApplyCorrections(predicted, ops, row))
       IN  /\ prev_time' = << row.Timestamp >>
           /\ recent_usbl_x' = bx
           /\ recent_usbl_y' = by
           /\ kf' = corrected
           /\ arrivals' = IF HasFix(row) THEN Append(arrivals, row.usbl) ELSE arrivals
           /\ steps' = Append(steps,
                  [ Timestamp |-> row.Timestamp,
                    prev      |-> prev_time,
                    dt        |-> dt,
                    ops       |-> << "predict" >> \o ops,
                    fix       |-> row.usbl,
                    gate      |-> IF ~HasFix(row) THEN "none"
                                  ELSE IF Len(bx) < 2 THEN "cold"
                                  ELSE IF accepted THEN "accepted" ELSE "rejected",
                    before_x  |-> recent_usbl_x,
                    before_y  |-> recent_usbl_y,
                    window_x  |-> bx,
                    window_y  |-> by,
                    rounding  |-> row.usbl_rounding,
                    predicted |-> predicted,
                    after     |-> corrected ])
           /\ out' = Append(out,
                  [ Timestamp        |-> row.Timestamp,
                    kalman_x         |-> corrected.x.p,
                    kalman_y         |-> corrected.y.p,
                    kalman_depth     |-> corrected.z.p,
                    kalman_roll_deg  |-> Rad2Deg(corrected.roll.a),
                    kalman_pitch_deg |-> Rad2Deg(corrected.pitch.a),
                    Herc_Depth_1     |-> row.Herc_Depth_1,
                    kalman_yaw_deg   |-> row.kalman_yaw_deg,
                    Heading_rad      |-> Deg2Rad(row.Heading),
                    Pitch_rad        |-> Deg2Rad(row.Pitch),
                    Roll_rad         |-> Deg2Rad(row.Roll) ])
    /\ i' = i + 1
    /\ UNCHANGED <<pc, loaded, df, safe, nav, yaw, par, orch, rev>>

\* lines 370-417: the loop is over, the tables are written, return 0
SaveOutputs ==
    /\ pc = "loop"
    /\ i = Len(df)
    /\ pc' = "filtered"
    /\ UNCHANGED <<loaded, df, i, kf, prev_time, recent_usbl_x, recent_usbl_y,
                   steps, arrivals, out, safe, nav, yaw, par, orch, rev>>

----------------------------------------------------------------------------
(* The terrain raster (GeoTIFF) as rasterio reads it.  A cell holds <<e>>  *)
(* (elevation, quarter-metres) or NaN; `fill` is what a boundless read     *)
(* returns outside the raster: the nodata value, or 0 when none is set.    *)

Grid(ncols, c, e, fill) ==
    [ left |-> M(-5), top |-> M(3), res |-> M(2), ncols |-> ncols, nrows |-> 3,
      fill |-> fill,
      band |-> [rc \in (0..2) \X (0..2) |-> IF rc = <<1, 2>> THEN e ELSE c] ]

Sentinel == << M(-9999) >>

Rasters ==
    { Grid(3, <<M(-55)>>, <<M(-55)>>, fill) : fill \in {NaN, Sentinel, <<0>>} }
    \cup { Grid(2, <<M(-55)>>, <<M(-55)>>, fill) : fill \in {NaN, Sentinel, <<0>>} }
    \cup { Grid(3, <<M(-55)>>, e, NaN) :
              e \in { <<M(-54)>>, <<M(-55) + 2>>, <<M(-30)>>, NaN } }
    \cup { Grid(3, <<M(-55)>>, Sentinel, Sentinel), Grid(3, NaN, NaN, NaN),
           Grid(3, Sentinel, Sentinel, Sentinel) }

\* src.index(x, y): the (row, col) of the pixel holding (x, y)
RasterIndex(g, x, y) == << (g.top - y) \div g.res, (x - g.left) \div g.res >>

\* one pixel of a boundless read
ReadCell(g, r, c) ==
    IF r \in 0..(g.nrows - 1) /\ c \in 0..(g.ncols - 1) THEN g.band[<<r, c>>]
    ELSE g.fill

\* sample_raster_values: the centre pixel at (x, y)
SampleRaster(g, x, y) ==
    LET rc == RasterIndex(g, x, y) IN ReadCell(g, rc[1], rc[2])

\* sample_neighbor_values: the 3x3 window around the pixel holding (x, y)
SampleNeighbors(g, x, y) ==
    LET rc == RasterIndex(g, x, y)
    IN  { ReadCell(g, rc[1] + dr, rc[2] + dc) : dr \in {-1, 0, 1}, dc \in {-1, 0, 1} }

\* np.max: NaN as soon as one value is NaN
NpMax(vals) ==
    IF NaN \in vals THEN NaN
    ELSE CHOOSE a \in vals : \A b \in vals : Val(a) >= Val(b)

\* whether (x, y) lies within the raster's extent
InRaster(g, x, y) ==
    LET rc == RasterIndex(g, x, y)
    IN  rc[1] \in 0..(g.nrows - 1) /\ rc[2] \in 0..(g.ncols - 1)

\* whether the raster holds an elevation at (x, y): inside, and not nodata
HasTerrainData(g, x, y) ==
    /\ InRaster(g, x, y)
    /\ g.band[RasterIndex(g, x, y)] \notin {NaN, Sentinel}

\* a < b on floats: False when either is NaN
Less(a, b) == ~IsNaN(a) /\ ~IsNaN(b) /\ Val(a) < Val(b)
Plus(a, d) == IF IsNaN(a) THEN NaN ELSE << Val(a) + d >>

----------------------------------------------------------------------------
(* kalman_offset_depth1m_heading2m.process_data, lines 86-143 *)

FirstPassMargin == 2        \* + 0.5 m
NeighborClearance == 4      \* < 1 m
NeighborMargin == 2         \* + 0.5 m
ReverifyMargin == 4         \* + 1 m

\* 2 * cos(h), 2 * sin(h) in quarter-metres for the modelled headings
LeverCos(h) == CASE h = 0 -> M(2) [] h = 1571 -> 0 [] h = 3142 -> M(-2) [] h = 4712 -> 0
LeverSin(h) == CASE h = 0 -> 0 [] h = 1571 -> M(2) [] h = 3142 -> 0 [] h = 4712 -> M(-2)

\* line 105-106: below_surface = depth < geotiff_value; depth = value + 0.5
CenterClamp(depth, geo) ==
    IF Less(depth, geo) THEN Plus(geo, FirstPassMargin) ELSE depth

\* a neighbourhood adjustment that acts only on a depth below the highest
\* neighbour
AdjustDepthIfBelowNeighbors(depth, neighbors) ==
    LET max_neighbor == NpMax(neighbors)
    IN  IF Less(depth, max_neighbor)
        THEN Plus(max_neighbor, NeighborMargin)
        ELSE depth

\* adjust_depth_by_neighbors, lines 120-130
AdjustDepthByNeighbors(depth, neighbors) ==
    LET max_neighbor == NpMax(neighbors)
    IN  IF Less(depth, Plus(max_neighbor, NeighborClearance))
        THEN Plus(max_neighbor, NeighborMargin)
        ELSE depth

\* a re-evaluation that lifts the depth by the margin instead of setting it
ReevaluateByStep(depth, geo) ==
    IF Less(depth, geo) THEN Plus(depth, ReverifyMargin) ELSE depth

\* lines 139-142: below_threshold = depth < geotiff_value; depth = value + 1
Reevaluate(depth, geo) ==
    IF Less(depth, geo) THEN Plus(geo, ReverifyMargin) ELSE depth

\* np.degrees on a column: NaN stays NaN
Degrees(v) == IF IsNaN(v) THEN NaN ELSE << Rad2Deg(Val(v)) >>

\* lines 219-234: the columns dropped before the table is written
drop_cols ==
    { "x_usbl", "y_usbl", "x_dvl", "y_dvl", "Heading_rad", "Pitch_rad",
      "Roll_rad", "kalman_yaw_deg", "kalman_roll_deg", "kalman_pitch_deg",
      "kalman_x", "kalman_y", "geotiff_value", "below_surface", "depth_diff",
      "_orig_heading_rad" }

\* a final row that carries the smoothed heading and the filtered roll and
\* pitch instead of the measurements
FinalRowFiltered(pt, ox, oy, geo, below_surface, depth) ==
    [ Timestamp |-> pt.Timestamp,
      Offset_x  |-> ox,
      Offset_y  |-> oy,
      UTM_X     |-> ox,
      UTM_Y     |-> oy,
      Depth     |-> depth,
      Heading   |-> pt.kalman_yaw_deg,
      Pitch     |-> << pt.kalman_pitch_deg >>,
      Roll      |-> << pt.kalman_roll_deg >> ]

\* lines 186-237: one row of the table as it is written to the final CSV
FinalRow(pt, ox, oy, geo, below_surface, depth) ==
    LET row == [ Timestamp         |-> pt.Timestamp,
                 kalman_x          |-> ox,
                 kalman_y          |-> oy,
                 Offset_x          |-> ox,
                 Offset_y          |-> oy,
                 UTM_X             |-> ox,
                 UTM_Y             |-> oy,
                 geotiff_value     |-> geo,
                 below_surface     |-> below_surface,
                 depth_diff        |-> IF IsNaN(geo) \/ IsNaN(depth) THEN NaN
                                       ELSE << Val(depth) - Val(geo) >>,
                 Depth             |-> depth,
                 _orig_heading_rad |-> pt.Heading_rad,
                 Heading_rad       |-> pt.Heading_rad,
                 Pitch_rad         |-> pt.Pitch_rad,
                 Roll_rad          |-> pt.Roll_rad,
                 kalman_yaw_deg    |-> pt.kalman_yaw_deg,
                 kalman_roll_deg   |-> pt.kalman_roll_deg,
                 kalman_pitch_deg  |-> pt.kalman_pitch_deg,
                 Heading           |-> Degrees(pt.Heading_rad),
                 Pitch             |-> Degrees(pt.Pitch_rad),
                 Roll              |-> Degrees(pt.Roll_rad) ]
    IN  [c \in (DOMAIN row) \ drop_cols |-> row[c]]

\* one row of the table through lines 86-143
SafePoint(pt, g) ==
    LET ox  == pt.kalman_x - LeverCos(Val(pt.Heading_rad))
        oy  == pt.kalman_y - LeverSin(Val(pt.Heading_rad))
        geo == SampleRaster(g, ox, oy)
        nb  == SampleNeighbors(g, ox, oy)
        d0  == << pt.kalman_depth >>
        d1  == CenterClamp(d0, geo)
        d2  == AdjustDepthByNeighbors(d1, nb)
        d3  == Reevaluate(d2, geo)
    IN  [ Timestamp      |-> pt.Timestamp,
          Offset_x       |-> ox,
          Offset_y       |-> oy,
          geotiff_value  |-> geo,
          has_data       |-> HasTerrainData(g, ox, oy),
          outside        |-> ~InRaster(g, ox, oy),
          neighbors      |-> nb,
          kalman_depth   |-> d0,
          after_center   |-> d1,
          after_neighbor |-> d2,
          Depth          |-> d3,
          csv            |-> FinalRow(pt, ox, oy, geo, Less(d0, geo), d3) ]

\* the whole stage on the table kalman_filter wrote
WriteSafeTrajectory(g) ==
    /\ safe' = [k \in 1..Len(out) |-> SafePoint(out[k], g)]
    /\ pc' = "done"
    /\ UNCHANGED <<loaded, df, i, kf, prev_time, recent_usbl_x, recent_usbl_y,
                   steps, arrivals, out, nav, yaw, par, orch, rev>>

----------------------------------------------------------------------------
(* Nav_depth_offset.process_rov_data, lines 16-140 *)

MaxNav == 2             \* rows of a navigation TSV

\* one row of the TSV after lines 17-46: time, depth (already inverted),
\* raw UTM easting and northing
NavPoints ==
    { [ time |-> 0, paro_depth_m |-> M(d), raw_utm_easting |-> x,
        raw_utm_northing |-> 0 ] :
        d \in {-10, -25, -60}, x \in { M(-2), M(-1), 0, M(2) } }
NavFiles ==
    UNION { { [k \in 1..n |-> [f[k] EXCEPT !.time = k]] :
                f \in [1..n -> NavPoints] } : n \in 1..MaxNav }

\* line 22: data = data[data['paro_depth_m'] <= -20]
NavKeepDeep(r) == r.paro_depth_m <= DepthCutoff

\* lines 58 and 86: bounds.left <= x <= bounds.right and
\* bounds.bottom <= y <= bounds.top
WithinBounds(g, x, y) ==
    /\ g.left <= x /\ x <= g.left + g.ncols * g.res
    /\ g.top - g.nrows * g.res <= y /\ y <= g.top

\* lines 56-62: the sampled elevation, NaN for a point out of bounds
TheoreticalDepth(g, x, y) ==
    IF WithinBounds(g, x, y) THEN SampleRaster(g, x, y) ELSE NaN

NavDepthStep == 4       \* 1 m, lines 69 and 70
SteepThreshold == 2     \* 0.5 m, line 91

\* lines 68-72: np.where(depth <= theoretical + 1, theoretical - 1, depth)
AdjustedDepth(depth, theo) ==
    IF ~IsNaN(theo) /\ depth <= Val(theo) + NavDepthStep
    THEN Val(theo) - NavDepthStep
    ELSE depth

\* lines 80-88: the elevations sampled one cell west, east, south and north
AdjacentDepths(g, x, y) ==
    { SampleRaster(g, c[1], c[2]) :
        c \in { c \in { <<x - g.res, y>>, <<x + g.res, y>>,
                        <<x, y - g.res>>, <<x, y + g.res>> } :
                 WithinBounds(g, c[1], c[2]) } }

\* lines 78 and 91
IsSteep(g, x, y) ==
    LET theo == TheoreticalDepth(g, x, y)
    IN  /\ ~IsNaN(theo)
        /\ \E adj \in AdjacentDepths(g, x, y) : Less(Plus(theo, SteepThreshold), adj)

\* the elevations the raster holds one cell west, east, south and north of
\* (x, y), for the neighbours that fall on a pixel of the raster
NeighboursInRaster(g, x, y) ==
    { g.band[RasterIndex(g, c[1], c[2])] :
        c \in { c \in { <<x - g.res, y>>, <<x + g.res, y>>,
                        <<x, y - g.res>>, <<x, y + g.res>> } :
                 HasTerrainData(g, c[1], c[2]) } }

\* lines 64-137: one row of the formatted table
NavRow(r, g) ==
    LET x     == r.raw_utm_easting
        y     == r.raw_utm_northing
        theo  == TheoreticalDepth(g, x, y)
        steep == IsSteep(g, x, y)
    IN  [ Timestamp                |-> r.time,
          raw_utm_easting          |-> x,
          raw_utm_northing         |-> y,
          paro_depth_m             |-> r.paro_depth_m,
          theoretical_max_depth_m  |-> theo,
          has_data                 |-> HasTerrainData(g, x, y),
          steep                    |-> steep,
          neighbours               |-> NeighboursInRaster(g, x, y),
          cell                     |-> g.res,
          adjusted_utm_easting     |-> IF steep THEN x + g.res ELSE x,
          adjusted_utm_northing    |-> y,
          Depth                    |-> AdjustedDepth(r.paro_depth_m, theo) ]

\* The whole function.  The columns adjusted_utm_easting / _northing come
\* into being at the first assignment of line 93; when no row is steep,
\* data['adjusted_utm_easting'] at line 100 raises KeyError and nothing is
\* written.
process_rov_data(file, g) ==
    LET data == SelectSeq(file, NavKeepDeep)
    IN  /\ IF \E k \in 1..Len(data) :
                 IsSteep(g, data[k].raw_utm_easting, data[k].raw_utm_northing)
           THEN /\ nav' = [ data |-> data,
                            formatted_data |->
                                [k \in 1..Len(data) |-> NavRow(data[k], g)] ]
                /\ pc' = "nav_done"
           ELSE /\ nav' = [ data |-> data, formatted_data |-> << >> ]
                /\ pc' = "nav_failed"
        /\ UNCHANGED <<loaded, df, i, kf, prev_time, recent_usbl_x,
                       recent_usbl_y, steps, arrivals, out, safe, yaw, par, orch, rev>>

----------------------------------------------------------------------------
\* kalman_filter.process_data up to the loop, on any input file
ReadInput ==
    /\ pc = "start"
    /\ \E file \in InputFiles, has_depth_column, has_event_column \in BOOLEAN :
           ReadFile(file, has_depth_column, has_event_column)

\* kalman_offset_depth1m_heading2m.process_data, on any raster
TerrainStage ==
    /\ pc = "filtered"
    /\ \E g \in Rasters : WriteSafeTrajectory(g)

\* filter_heading on any heading sequence
SmoothHeading ==
    /\ pc = "start"
    /\ \E headings \in HeadingSeqs :
          yaw' = [ headings |-> headings, filtered |-> filter_heading(headings) ]
    /\ pc' = "smoothed"
    /\ UNCHANGED <<loaded, df, i, kf, prev_time, recent_usbl_x, recent_usbl_y,
                   steps, arrivals, out, safe, nav, par, orch, rev>>

\* Nav_depth_offset.process_rov_data on any navigation file and raster
NavDepthOffset ==
    /\ pc = "start"
    /\ \E file \in NavFiles, g \in Rasters : process_rov_data(file, g)

----------------------------------------------------------------------------
(* Two dives handed to kalman_filter.process_data side by side.  Every      *)
(* local of a call (df, kf, prev_time, the gate buffers) lives in that      *)
(* call's own entry of par.run; the file system is what the calls share.    *)

Dives == { "H2075", "H2076" }

\* the inputs of the two dives: a first fix at the origin, a second fix
ParFiles ==
    { [k \in 1..2 |->
          Row(k, <<M(-25)>>, IF k = 1 THEN Pos(0, 0) ELSE fix, NaN, NaN, NaN, NaN)] :
        fix \in { Pos(2, 2), Pos(-2, -2), Pos(10, 0) } }

\* main_kalman.get_directories, lines 41-46: raw_dir = processed_dir =
\* <base>/<expedition>/RUMI_processed/<dive>
ProcessedDir(dive) == << "RUMI_processed", dive >>

\* line 170: processed_dir / f"{expedition}_{dive}_kalman_filtered_data.csv"
OutputFile(dive) ==
    ProcessedDir(dive) \o << dive, "kalman_filtered_data.csv" >>

\* line 385: Path.cwd() / "kalman_filtered_data.csv"
LocalOutput(dive) == << "cwd", "kalman_filtered_data.csv" >>

\* line 408: processed_dir / "NA156_H2024_final_datatable.csv"
FinalOutputFile(dive) ==
    ProcessedDir(dive) \o << "NA156_H2024_final_datatable.csv" >>

\* lines 158-254 of one call: its locals when its loop starts
NewRun(table) ==
    [ at            |-> "loop",
      df            |-> WithYaw(table),
      i             |-> 0,
      kf            |-> InitFilter(table),
      prev_time     |-> NaN,
      recent_usbl_x |-> << >>,
      recent_usbl_y |-> << >>,
      out           |-> << >> ]

\* both calls are started
StartDives ==
    /\ pc = "start"
    /\ pc' = "dives"
    /\ \E files \in [Dives -> ParFiles] :
          par' = [ run     |-> [d \in Dives |->
                                  \* time-ordered, no ties: one table
                                  NewRun(CHOOSE t \in Prepare(files[d], FALSE) : TRUE)],
                   written |-> {} ]
    /\ UNCHANGED <<loaded, df, i, kf, prev_time, recent_usbl_x, recent_usbl_y,
                   steps, arrivals, out, safe, nav, yaw, orch, rev>>

\* lines 261-368 in the call of dive d: one pass of its loop
DiveStep(d) ==
    LET run == par.run[d]
    IN  /\ pc = "dives"
        /\ run.at = "loop"
        /\ run.i < Len(run.df)
        /\ LET row  == run.df[run.i + 1]
               pass == StepFrom(run.kf, run.prev_time, run.recent_usbl_x,
                                run.recent_usbl_y, row)
           IN  par' = [par EXCEPT !.run[d] =
                          [run EXCEPT !.i = @ + 1,
                                      !.kf = pass.after,
                                      !.prev_time = << row.Timestamp >>,
                                      !.recent_usbl_x = pass.bx,
                                      !.recent_usbl_y = pass.by,
                                      !.out = Append(@, pass.after)]]
        /\ UNCHANGED <<pc, loaded, df, i, kf, prev_time, recent_usbl_x,
                       recent_usbl_y, steps, arrivals, out, safe, nav, yaw, orch, rev>>

\* lines 380-387 in the call of dive d: the filtered table is written to
\* output_file, or to local_output when the first write is refused
DiveSave(d) ==
    LET run == par.run[d]
    IN  /\ pc = "dives"
        /\ run.at = "loop"
        /\ run.i = Len(run.df)
        /\ \E permission_error \in BOOLEAN :
              par' = [par EXCEPT
                        !.run[d].at = "saved",
                        !.written = @ \cup
                            { << IF permission_error THEN LocalOutput(d)
                                 ELSE OutputFile(d), d >> }]
        /\ UNCHANGED <<pc, loaded, df, i, kf, prev_time, recent_usbl_x,
                       recent_usbl_y, steps, arrivals, out, safe, nav, yaw, orch, rev>>

\* lines 389-410 in the call of dive d: the final datatable is written
DiveFinal(d) ==
    /\ pc = "dives"
    /\ par.run[d].at = "saved"
    /\ par' = [par EXCEPT !.run[d].at = "returned",
                          !.written = @ \cup { << FinalOutputFile(d), d >> }]
    /\ UNCHANGED <<pc, loaded, df, i, kf, prev_time, recent_usbl_x,
                   recent_usbl_y, steps, arrivals, out, safe, nav, yaw, orch, rev>>

\* the scheduler lets either call take its next step
ParallelDives == \E d \in Dives : DiveStep(d) \/ DiveSave(d) \/ DiveFinal(d)

\* the depths and centre elevations the re-evaluation is applied to
ReverifyDepths ==
    { NaN, <<M(-60)>>, <<M(-57)>>, <<M(-56)>>, <<M(-55) - 1>>, <<M(-55)>>,
      <<M(-55) + 2>>, <<M(-54)>>, <<M(-50)>> }
ReverifyElevations == { NaN, <<M(-55)>>, <<M(-54)>>, Sentinel, <<0>> }

\* lines 139-142 on any depth and centre elevation, and once more on the
\* result
Reverify ==
    /\ pc = "start"
    /\ pc' = "reverified"
    /\ \E depth \in ReverifyDepths, geo \in ReverifyElevations :
          rev' = [ depth |-> depth,
                   geo   |-> geo,
                   once  |-> Reevaluate(depth, geo),
                   twice |-> Reevaluate(Reevaluate(depth, geo), geo) ]
    /\ UNCHANGED <<loaded, df, i, kf, prev_time, recent_usbl_x, recent_usbl_y,
                   steps, arrivals, out, safe, nav, yaw, par, orch>>

----------------------------------------------------------------------------
(* main.py: the orchestrator.  orch.at is the step about to be offered,     *)
(* orch.ended how main() was left ("no" while it runs), orch.exists whether *)
(* all_dive_summaries.csv is on disk, orch.offered the prompts shown so     *)
(* far, orch.answers the replies, orch.ran the modules whose process_data   *)
(* was called.                                                              *)

\* lines 200-239: the modules in the order main() hands them to process_script
MainSteps ==
    << "dive_summaries", "process_dat", "sdyn_usbl", "sensors_sealog",
       "stillcam_images" >>

\* what the user may type at "Do you want to process ...? (yes/no)"
Answers == { "yes", "no", "y" }

\* how a call of <module>.process_data can end.  process_dat.process_data
\* calls process_all_dat_files_both outside any try (process_dat.py line
\* 396), which raises FileNotFoundError when raw/nav/navest is missing
\* (line 149); the other modules catch or avoid their explicit raises.
Endings(module) ==
    IF module = "process_dat" THEN { "returned", "raised" } ELSE { "returned" }

\* main() is started; the summary file may be there from an earlier session
StartMain ==
    /\ pc = "start"
    /\ pc' = "main"
    /\ \E exists \in BOOLEAN :
          orch' = [ at |-> 1, ended |-> "no", exists |-> exists,
                    offered |-> << >>, answers |-> << >>, ran |-> << >> ]
    /\ UNCHANGED <<loaded, df, i, kf, prev_time, recent_usbl_x, recent_usbl_y,
                   steps, arrivals, out, safe, nav, yaw, par, rev>>

\* process_script, lines 128-159, for the module at position orch.at: the
\* prompt, the reply, and process_data when the reply is "yes".  Running
\* dive_summaries may create the summary file; an exception leaves main().
\* After step 1, lines 206-225: without the summary file main() returns.
ProcessScript ==
    /\ pc = "main"
    /\ orch.ended = "no"
    /\ \E proceed \in Answers, created \in BOOLEAN :
          LET module == MainSteps[orch.at]
              exists == orch.exists
                        \/ (module = "dive_summaries" /\ proceed = "yes" /\ created)
          IN  \E ending \in (IF proceed = "yes" THEN Endings(module)
                              ELSE { "returned" }) :
                orch' = [ at      |-> orch.at + 1,
                          ended   |-> IF ending = "raised" THEN "raised"
                                      ELSE IF orch.at = 1 /\ ~exists THEN "returned"
                                      ELSE IF orch.at = Len(MainSteps) THEN "finished"
                                      ELSE "no",
                          exists  |-> exists,
                          offered |-> Append(orch.offered, module),
                          answers |-> Append(orch.answers, proceed),
                          ran     |-> IF proceed = "yes"
                                      THEN Append(orch.ran, module)
                                      ELSE orch.ran ]
    /\ UNCHANGED <<pc, loaded, df, i, kf, prev_time, recent_usbl_x,
                   recent_usbl_y, steps, arrivals, out, safe, nav, yaw, par, rev>>

Next ==
    \/ ReadInput
    \/ NavDepthOffset
    \/ SmoothHeading
    \/ TerrainStage
    \/ FilterStep
    \/ SaveOutputs
    \/ StartDives
    \/ ParallelDives
    \/ Reverify
    \/ StartMain
    \/ ProcessScript

Spec == Init /\ [][Next]_vars

----------------------------------------------------------------------------
(* Properties *)

Steps == 1..Len(steps)
Points == 1..Len(safe)
Last == steps[Len(steps)]
Applied(st, op) == \E k \in 1..Len(st.ops) : st.ops[k] = op
AppliedUsbl(st) == Applied(st, "usbl_x") /\ Applied(st, "usbl_y")

\* C1: every point of the terrain stage's output whose offset position has
\* terrain data lies at least 1 m above the centre-pixel elevation.
C1_DepthOneMetreAboveTerrain ==
    \A k \in Points :
        safe[k].has_data =>
            Val(safe[k].Depth) >= Val(safe[k].geotiff_value) + M(1)

IsC2Dive ==
    /\ Len(loaded) = 3
    /\ \A k \in 1..3 : loaded[k].usbl = NaN /\ loaded[k].dvl = NaN
    /\ loaded[1].Herc_Depth_1 = <<M(-25)>>
    /\ loaded[2].Herc_Depth_1 = <<M(-40)>>
    /\ loaded[3].Herc_Depth_1 = <<M(-60)>>

\* C2: the dive with depths -25, -40, -60 m and no acoustic or bottom-track
\* data is processed to the end and, over terrain flat at -55 m, comes out
\* with every depth >= -54 m, the first two depths unchanged and only the
\* third changed.
C2_FlatTerrainScenario ==
    IsC2Dive =>
        /\ pc # "failed"
        /\ (pc = "done" /\ \A k \in 1..Len(safe) : safe[k].neighbors = { <<M(-55)>> })
           => /\ Len(safe) = 3
              /\ \A k \in 1..3 : Val(safe[k].Depth) >= M(-54)
              /\ safe[1].Depth = safe[1].kalman_depth
              /\ safe[2].Depth = safe[2].kalman_depth
              /\ safe[3].Depth # safe[3].kalman_depth

IsC3Dive ==
    /\ Len(steps) >= 3
    /\ steps[1].fix = Pos(0, 0)
    /\ steps[2].fix = Pos(0, 0)
    /\ steps[3].fix = Pos(1000, 1000)

\* C3: with the fixes (0,0), (0,0), (1000,1000) the gate rejects the third
\* fix: no acoustic correction at the third record, whose x, y state stays
\* the predicted one.
C3_ThirdFixRejected ==
    IsC3Dive =>
        /\ steps[3].gate = "rejected"
        /\ ~Applied(steps[3], "usbl_x")
        /\ ~Applied(steps[3], "usbl_y")
        /\ steps[3].after.x.p = steps[3].predicted.x.p
        /\ steps[3].after.y.p = steps[3].predicted.y.p

\* C4: a fix that arrives while the rolling buffer has zero variance on x or
\* on y is accepted, and its x and y corrections are applied.
C4_ZeroVarianceAccepts ==
    \A k \in Steps :
        ( /\ steps[k].fix # NaN
          /\ Len(steps[k].before_x) >= 2
          /\ (StdSq(steps[k].before_x) = 0 \/ StdSq(steps[k].before_y) = 0) )
        => AppliedUsbl(steps[k])

\* C5: with at least 2 fixes buffered and both standard deviations positive,
\* a fix is accepted iff it lies within 3 standard deviations of the mean on
\* both axes, the statistics being those of the fixes buffered before it.
C5_ThreeSigmaOfEarlierFixes ==
    \A k \in Steps :
        ( /\ steps[k].fix # NaN
          /\ Len(steps[k].before_x) >= 2
          /\ StdSq(steps[k].before_x) > 0
          /\ StdSq(steps[k].before_y) > 0 )
        => ( AppliedUsbl(steps[k])
             <=> ( /\ Within3Sigma(steps[k].before_x, steps[k].fix[1], "exact")
                   /\ Within3Sigma(steps[k].before_y, steps[k].fix[2], "exact") ) )

\* C6: a fix that arrives while fewer than 2 fixes are buffered (the first and
\* the second fix of a dive) is accepted and applied whatever its value.
C6_ColdStartAccepts ==
    \A k \in Steps :
        (steps[k].fix # NaN /\ Len(steps[k].before_x) < 2)
        => AppliedUsbl(steps[k])

\* C7: a fix the gate rejects is never appended to the rolling buffers.
C7_RejectedNotBuffered ==
    (Len(steps) > 0 /\ Last.gate = "rejected")
    => (recent_usbl_x = Last.before_x /\ recent_usbl_y = Last.before_y)

\* C8: the two rolling buffers have the same length, at most 20, and hold the
\* most recent fixes that arrived, in arrival order.
C8_BuffersHoldLatestArrivals ==
    LET n == Len(arrivals)
        m == Min(n, 20)
    IN  /\ Len(recent_usbl_x) = Len(recent_usbl_y)
        /\ Len(recent_usbl_x) = m
        /\ \A k \in 1..m :
              /\ recent_usbl_x[k] = arrivals[n - m + k][1]
              /\ recent_usbl_y[k] = arrivals[n - m + k][2]

C8_Witness ==
    /\ Len(arrivals) > 20
    /\ Len(recent_usbl_x) = 20
    /\ recent_usbl_x[1] = arrivals[Len(arrivals) - 19][1]

\* C9: the loop visits the rows in strictly increasing timestamp order, so the
\* elapsed time between consecutive processed rows is positive.
C9_StrictlyIncreasingTimestamps ==
    \A k \in Steps :
        k > 1 => steps[k].Timestamp > steps[k - 1].Timestamp

Rank(op) ==
    CASE op = "predict" -> 0 [] op = "depth" -> 1
      [] op = "usbl_x" -> 2 [] op = "usbl_y" -> 3
      [] op = "dvl_x" -> 4 [] op = "dvl_y" -> 5
      [] op = "roll" -> 6 [] op = "pitch" -> 7

\* C10: every iteration performs exactly one predict, first, and then its
\* corrections in the order depth, acoustic x, acoustic y, bottom-track x,
\* bottom-track y, roll, pitch.
C10_PredictThenFixedOrder ==
    \A k \in Steps :
        LET ops == steps[k].ops
        IN  /\ ops[1] = "predict"
            /\ \A a, b \in 1..Len(ops) : a < b => Rank(ops[a]) < Rank(ops[b])

C10_Witness ==
    /\ Len(steps) > 0
    /\ Last.ops = << "predict", "depth", "usbl_x", "usbl_y",
                     "dvl_x", "dvl_y", "roll", "pitch" >>
    /\ Last.after.x.p # Last.predicted.x.p

\* C11: bottom-track x and y corrections are applied at a record only when the
\* filtered depth after that record's depth correction is <= -30 m; a record
\* where the vehicle is shallower than -30 m gets no bottom-track correction.
C11_DvlOnlyBelowThirtyMetres ==
    \A k \in Steps :
        (Applied(steps[k], "dvl_x") \/ Applied(steps[k], "dvl_y"))
        => steps[k].after.z.p <= M(-30)

IsBlank(r) ==
    /\ IsNaN(r.Herc_Depth_1) /\ IsNaN(r.usbl) /\ IsNaN(r.dvl)
    /\ IsNaN(r.Roll) /\ IsNaN(r.Pitch)

\* C12: a record of the input with no usable measurement field is processed
\* as a predict-only step and an estimate is emitted for its timestamp.
C12_BlankRecordPredictOnly ==
    pc \in {"filtered", "done"} =>
        \A k \in 1..Len(loaded) :
            IsBlank(loaded[k]) =>
                /\ \E j \in Steps :
                      /\ steps[j].Timestamp = loaded[k].Timestamp
                      /\ steps[j].ops = << "predict" >>
                /\ \E j \in 1..Len(out) : out[j].Timestamp = loaded[k].Timestamp

\* the columns of the final CSV that hold trajectory data; any other column
\* of a written row is one that can carry a mark or a flag
DataColumns ==
    { "Timestamp", "Offset_x", "Offset_y", "UTM_X", "UTM_Y", "Depth",
      "Heading", "Pitch", "Roll" }
AuditColumns(row) == (DOMAIN row) \ DataColumns

\* C13: a point whose offset position is outside the raster keeps the depth
\* the estimator produced through the centre, neighbourhood and re-evaluation
\* steps, and its written row has a column marking it as unassessed.
C13_OutsideRasterUntouched ==
    \A k \in Points :
        safe[k].outside =>
            /\ safe[k].after_center = safe[k].kalman_depth
            /\ safe[k].after_neighbor = safe[k].kalman_depth
            /\ safe[k].Depth = safe[k].kalman_depth
            /\ AuditColumns(safe[k].csv) # {}

\* C14: every written point carries two audit flags, and its depth-clamp
\* flag is true exactly when a terrain step changed its depth.
C14_ClampFlagWritten ==
    \A k \in Points :
        LET row == safe[k].csv
        IN  \E c, d \in AuditColumns(row) :
                /\ c # d
                /\ row[c] = (safe[k].Depth # safe[k].kalman_depth)

NavRows == 1..Len(nav.formatted_data)

\* C15: for a written point with terrain data, the reported easting is the
\* raw easting plus one cell iff one of the four axis-aligned neighbours
\* inside the raster is more than 0.5 m above the centre elevation, and is
\* the raw easting otherwise; the northing is the raw northing.
C15_SteepTerrainShiftsEast ==
    \A k \in NavRows :
        LET r == nav.formatted_data[k]
        IN  r.has_data =>
              /\ r.adjusted_utm_easting =
                    IF \E e \in r.neighbours :
                           Val(e) > Val(r.theoretical_max_depth_m) + 2
                    THEN r.raw_utm_easting + r.cell
                    ELSE r.raw_utm_easting
              /\ r.adjusted_utm_northing = r.raw_utm_northing

\* C16: process_rov_data completes on every dive, also when no point
\* triggers steep-terrain avoidance, and every point that does not trigger
\* it is reported with its raw easting and northing.
C16_UnshiftedPointsKeepRawPosition ==
    /\ pc # "nav_failed"
    /\ \A k \in NavRows :
          LET r == nav.formatted_data[k]
          IN  ~r.steep =>
                /\ r.adjusted_utm_easting = r.raw_utm_easting
                /\ r.adjusted_utm_northing = r.raw_utm_northing

\* C19: filter_heading returns a sequence as long as its argument whose every
\* element lies in [0, 360), also when entries or all entries are missing, and
\* returns a constant sequence unchanged.
C19_SmoothedHeadingInRange ==
    pc = "smoothed" =>
        /\ Len(yaw.filtered) = Len(yaw.headings)
        /\ \A k \in 1..Len(yaw.filtered) :
              /\ ~IsNaN(yaw.filtered[k])
              /\ 0 <= Val(yaw.filtered[k]) /\ Val(yaw.filtered[k]) < 360
        /\ ( /\ \A k \in 1..Len(yaw.headings) : ~IsNaN(yaw.headings[k])
             /\ \A j, k \in 1..Len(yaw.headings) : yaw.headings[j] = yaw.headings[k] )
           => yaw.filtered = yaw.headings


AttitudeColumns == { "kalman_yaw_deg", "kalman_roll_deg", "kalman_pitch_deg" }

LeftBehind(found, k, c) ==
    IF HasFix(df[k]) THEN PushFix(found, df[k].usbl[c]) ELSE found

\* pass k of the loop recomputed from what pass k - 1 left behind
Recomputed(k) ==
    IF k = 1
    THEN StepFrom(InitFilter(df), NaN, << >>, << >>, df[1])
    ELSE StepFrom(steps[k - 1].after, << df[k - 1].Timestamp >>,
                  LeftBehind(steps[k - 1].before_x, k - 1, 1),
                  LeftBehind(steps[k - 1].before_y, k - 1, 2), df[k])

NoDepthChannel ==
    loaded # << >> /\ \A k \in 1..Len(loaded) : IsNaN(loaded[k].Herc_Depth_1)

\* C20: a dive whose input has no depth channel (the column is absent, or no
\* record carries a depth) ends in the error branch of process_data: the
\* error is reported, 1 is returned, no estimate is emitted and no table is
\* written.
C20_NoDepthChannelIsFatal ==
    NoDepthChannel =>
        /\ pc = "failed"
        /\ steps = << >> /\ out = << >> /\ safe = << >>

C20_Witness ==
    /\ NoDepthChannel
    /\ Len(loaded) >= 2
    /\ HasFix(loaded[1])
    /\ df = << >>
    /\ pc = "failed"


\* the fixes of dive d's own table, on axis c
OwnFixes(d, c) ==
    { par.run[d].df[k].usbl[c] :
        k \in { j \in 1..Len(par.run[d].df) : HasFix(par.run[d].df[j]) } }

\* C21: two dives processed side by side share no mutable state: each
\* call's gate buffers hold only fixes of its own dive, and no file is
\* written by both calls, on every interleaving and also when a write of
\* the filtered table is refused and falls back to the local copy.
C21_DivesShareNothing ==
    pc = "dives" =>
        /\ \A d \in Dives :
              /\ \A k \in 1..Len(par.run[d].recent_usbl_x) :
                    par.run[d].recent_usbl_x[k] \in OwnFixes(d, 1)
              /\ \A k \in 1..Len(par.run[d].recent_usbl_y) :
                    par.run[d].recent_usbl_y[k] \in OwnFixes(d, 2)
        /\ \A w1, w2 \in par.written : w1[1] = w2[1] => w1[2] = w2[2]


\* C22: the first terrain step raises every depth that is less than 0.5 m
\* above the centre-pixel elevation (depths between the elevation and
\* elevation + 0.5 included) to elevation + 0.5, and leaves every depth at
\* least 0.5 m above the elevation unchanged.
C22_FirstPassClampsWithinMargin ==
    pc = "done" =>
        \A k \in Points :
            safe[k].has_data =>
                safe[k].after_center =
                    IF Less(safe[k].kalman_depth,
                            Plus(safe[k].geotiff_value, FirstPassMargin))
                    THEN Plus(safe[k].geotiff_value, FirstPassMargin)
                    ELSE safe[k].kalman_depth


\* C23: no terrain depth step lowers the vehicle: at every point the depth
\* after the neighbourhood adjustment is not below the depth before it, and
\* the final depth is not below the estimator's depth.
C23_TerrainStepsNeverLower ==
    pc = "done" =>
        \A k \in Points :
            /\ ~Less(safe[k].after_neighbor, safe[k].after_center)
            /\ ~Less(safe[k].Depth, safe[k].kalman_depth)


\* C24: the re-evaluation is idempotent (applied to its own result with the
\* same centre elevation it changes nothing) and it is the last depth
\* adjustment: the depth written to the final table is its result.
C24_ReevaluationIdempotentAndLast ==
    /\ pc = "reverified" => rev.twice = rev.once
    /\ pc = "done" =>
          \A k \in Points :
              safe[k].csv.Depth =
                  Reevaluate(safe[k].after_neighbor, safe[k].geotiff_value)

C24_Witness ==
    /\ pc = "reverified"
    /\ Less(rev.depth, rev.geo)
    /\ rev.once = Plus(rev.geo, ReverifyMargin)
    /\ rev.once # rev.depth
    /\ rev.twice = rev.once


\* what the first record alone gives for a column, 0 when it has no value
FromFirst(v) == IF IsNaN(v) THEN 0 ELSE Val(v)

\* C25: the estimator's initial state is built only from the first usable
\* record of the dive: x, y, depth, roll and pitch of the state the loop
\* starts from hold no measurement of a later record.
C25_CausalInitialisation ==
    pc = "loop" /\ i = 0 =>
        /\ kf.x.p = (IF HasFix(df[1]) THEN df[1].usbl[1] ELSE 0)
        /\ kf.y.p = (IF HasFix(df[1]) THEN df[1].usbl[2] ELSE 0)
        /\ kf.z.p = FromFirst(df[1].Herc_Depth_1)
        /\ kf.roll.a = FromFirst(Deg2Rad(df[1].Roll))
        /\ kf.pitch.a = FromFirst(Deg2Rad(df[1].Pitch))


\* C26: in process_rov_data every written point with terrain data has an
\* adjusted depth at least 1 m above the seabed, and a point that is already
\* at least 1 m above the seabed keeps its measured depth.
C26_NavDepthOneMetreAboveSeabed ==
    \A k \in NavRows :
        LET r == nav.formatted_data[k]
        IN  r.has_data =>
              /\ r.Depth >= Val(r.theoretical_max_depth_m) + NavDepthStep
              /\ r.paro_depth_m >= Val(r.theoretical_max_depth_m) + NavDepthStep
                    => r.Depth = r.paro_depth_m


\* the modules among the first n of MainSteps whose prompt was answered "yes"
RECURSIVE AnsweredYes(_)
AnsweredYes(n) ==
    IF n = 0 THEN << >>
    ELSE IF orch.answers[n] = "yes" THEN Append(AnsweredYes(n - 1), MainSteps[n])
    ELSE AnsweredYes(n - 1)

MainEnded == orch.ended # "no"

\* C27: in main(), when all_dive_summaries.csv does not exist after the
\* dive-summaries step, none of the later steps is offered or run; when it
\* exists, process_dat, sdyn_usbl, sensors_sealog and stillcam_images are
\* offered in that order, and a module runs only when its prompt was
\* answered "yes".
C27_SummaryFileGatesLaterSteps ==
    pc = "main" =>
        /\ orch.offered = SubSeq(MainSteps, 1, Len(orch.offered))
        /\ orch.ran = AnsweredYes(Len(orch.answers))
        /\ Len(orch.offered) > 1 => orch.exists
        /\ MainEnded /\ ~orch.exists => orch.offered = << "dive_summaries" >>
        /\ MainEnded /\ orch.exists => orch.offered = MainSteps

----------------------------------------------------------------------------
(* The 3-sigma gate and the number of buffered fixes *)

\* the steps whose fix went through the statistics of lines 290-296 with both
\* standard deviations non-zero
Gated ==
    { k \in Steps :
        /\ steps[k].fix # NaN
        /\ Len(steps[k].window_x) >= 2
        /\ StdSq(steps[k].window_x) > 0
        /\ StdSq(steps[k].window_y) > 0 }

\* the fix of step k lies exactly 3 standard deviations from the mean on an axis
OnThreeSigma(k) ==
    LET dx == Len(steps[k].window_x) * steps[k].fix[1] - SumSeq(steps[k].window_x)
        dy == Len(steps[k].window_y) * steps[k].fix[2] - SumSeq(steps[k].window_y)
    IN  \/ dx * dx = 9 * StdSq(steps[k].window_x)
        \/ dy * dy = 9 * StdSq(steps[k].window_y)

----------------------------------------------------------------------------
(* Which records reach the estimator loop *)

\* the record of the table that step k processed
RecordOf(k) == df[k]

\* C29: only records with a depth measurement <= -20 m reach the estimator
\* loop (records with a missing depth or a depth above -20 m are removed
\* before filtering), so every processed step applies a depth correction and
\* a bottom-track correction is applied only at records whose measured depth
\* lies in [-30, -20] m.
C29_OnlyDeepRecordsAreProcessed ==
    (pc \in { "loop", "filtered", "done" }) =>
        /\ \A k \in 1..Len(df) :
              /\ ~IsNaN(df[k].Herc_Depth_1)
              /\ Val(df[k].Herc_Depth_1) <= M(-20)
        /\ \A j \in 1..Len(loaded) :
              (IsNaN(loaded[j].Herc_Depth_1) \/ Val(loaded[j].Herc_Depth_1) > M(-20))
              => \A k \in 1..Len(df) : df[k].Timestamp # loaded[j].Timestamp
        /\ \A k \in Steps :
              /\ steps[k].Timestamp = RecordOf(k).Timestamp
              /\ Applied(steps[k], "depth")
              /\ (Applied(steps[k], "dvl_x") \/ Applied(steps[k], "dvl_y"))
                 => /\ Val(RecordOf(k).Herc_Depth_1) >= M(-30)
                    /\ Val(RecordOf(k).Herc_Depth_1) <= M(-20)

\* reached: a file with a record above -20 m and a record at -30 m with a
\* bottom-track position has been processed; only the second reached the
\* loop, where it took a depth and a bottom-track correction
C29_Witness ==
    /\ pc = "done"
    /\ \E j \in 1..Len(loaded) :
          /\ ~IsNaN(loaded[j].Herc_Depth_1)
          /\ Val(loaded[j].Herc_Depth_1) > M(-20)
    /\ Len(df) < Len(loaded)
    /\ \E k \in Steps :
          /\ Val(RecordOf(k).Herc_Depth_1) = M(-30)
          /\ Applied(steps[k], "depth")
          /\ Applied(steps[k], "dvl_x")

----------------------------------------------------------------------------
(* The neighbourhood adjustment and the re-evaluation that follows it *)

\* every value of the point's 3x3 window is a number
ValidWindow(k) == NaN \notin safe[k].neighbors

====
